---- MODULE Spec2Model ----
(***************************************************************************)
(* Model of package lib (src/lib/lib.go): the embedding facade that wires  *)
(* a storage connection, a backend application instance and a terminal UI  *)
(* program together.  One invocation of RunTUI or of RunWithProgressBar is *)
(* modelled, together with the goroutine started by                        *)
(* `go appInstance.Subscribe(program)` (the event bridge), the backend     *)
(* event producer, the UI program's render loop, cancellation of the       *)
(* supplied context and calls of Shutdown.                                 *)
(***************************************************************************)
EXTENDS Integers, Sequences, FiniteSets, TLC

\* ---------------------------------------------------------------- bounds
\* Number of events the backend emits in one run.
MaxEvents == 3
\* Number of Shutdown calls the embedding caller makes.
MaxShutdown == 2

\* ------------------------------------------------------------ vocabulary
NoErr == "nil"
ErrConnect == "StorageUnavailable"
ErrAppNew == "AppInitFailed"
ErrUI == "UILoopFailed"
ErrKilled == "ProgramKilled"

Fns == {"RunTUI", "RunWithProgressBar"}

\* cfg.Options.Progress is a *bool: nil, or a pointer to true or to false.
ProgressFlags == {"nil", "true", "false"}

\* A string is a sequence of one-character strings.
Ghostty == <<"g", "h", "o", "s", "t", "t", "y">>

\* Values of TERM_PROGRAM that contain "ghostty" in some letter case.
GhosttyPrograms ==
    { <<"g", "h", "o", "s", "t", "t", "y">>,
      <<"G", "h", "o", "s", "t", "t", "y">>,
      <<"G", "H", "O", "S", "T", "T", "Y">>,
      <<"x", "-", "g", "H", "o", "S", "t", "T", "y", "2">> }

\* Values of TERM_PROGRAM that do not ("" is also what Getenv gives when the
\* variable is unset).
PlainPrograms ==
    { << >>,
      <<"g", "h", "o", "s", "t", "y">>,
      <<"g", "h", "o", "s", "t", " ", "t", "y">>,
      <<"y", "t", "t", "s", "o", "h", "g">>,
      <<"G", "H", "O", "S", "T", "T">>,
      <<"v", "s", "c", "o", "d", "e">> }

TermPrograms == GhosttyPrograms \cup PlainPrograms

\* os.LookupEnv("WT_SESSION"): the value and whether the variable is present.
WtSessions ==
    { [ok |-> FALSE, value |-> ""],
      [ok |-> TRUE, value |-> ""],
      [ok |-> TRUE, value |-> "1"] }

VARIABLES
    fn,               \* the entry point this invocation runs
    isTerminal,       \* term.IsTerminal(os.Stderr.Fd())
    wtSession,        \* os.LookupEnv("WT_SESSION")
    termProgram,      \* os.Getenv("TERM_PROGRAM")
    progress,         \* cfg.Options.Progress
    pc,               \* position of the caller's path in the entry point
    supportsProgress, \* local of RunWithProgressBar
    progressEnabled,  \* local of RunWithProgressBar
    deferred,         \* the reset write has been deferred
    stderr,           \* escape sequences written to os.Stderr, in order
    conn,             \* the storage connection handle
    app,              \* the application instance
    program,          \* the tea.Program
    progCtx,          \* the program was built with tea.WithContext(ctx)
    calls,            \* how often each collaborator has been called
    bridges,          \* the goroutines running appInstance.Subscribe(program)
    events,           \* events emitted and not yet taken by a bridge
    nEmitted,         \* events emitted so far: event k is the number k
    delivered,        \* events received by the program's input channel
    ctxDone,          \* the supplied context has been cancelled
    runErr,           \* the error program.Run returned
    result,           \* the value the entry point returned
    logs,             \* slog records emitted
    nShutdown,        \* Shutdown calls made
    emittedAtRun      \* history: events emitted when program.Run was called

inputs == <<fn, isTerminal, wtSession, termProgram, progress>>
caller == <<pc, supportsProgress, progressEnabled, deferred, stderr, result, logs>>
resources == <<conn, app, calls>>
ui == <<program, progCtx, runErr>>
backend == <<events, nEmitted>>
vars == <<inputs, caller, resources, ui, backend, bridges, delivered, ctxDone,
          nShutdown, emittedAtRun>>

\* ------------------------------------------------------ pure functions

\* One character of strings.ToLower.
ToLowerChar(c) ==
    CASE c = "G" -> "g"
      [] c = "H" -> "h"
      [] c = "O" -> "o"
      [] c = "S" -> "s"
      [] c = "T" -> "t"
      [] c = "Y" -> "y"
      [] OTHER -> c

ToLowerKeep(s) == s

ToLower(s) == [i \in 1..Len(s) |-> ToLowerChar(s[i])]

Contains(s, sub) ==
    \E i \in 0..(Len(s) - Len(sub)) : SubSeq(s, i + 1, i + Len(sub)) = sub

supportsProgressBar(isTerm, wt, termProg) ==
    IF ~isTerm
    THEN FALSE
    ELSE wt.ok \/ Contains(ToLower(termProg), Ghostty)

ProgressEnabledOnlyTrue(p) == p = "true"

ProgressEnabled(p) == p = "nil" \/ p = "true"

OverlayActive(enabled, supports) == enabled /\ supports

\* ------------------------------------------------------------- helpers

\* The deferred function of RunWithProgressBar, run when it returns.
RunDefersNever(isDeferred, out, ok) == out

RunDefers(isDeferred, out, ok) ==
    IF isDeferred THEN Append(out, [seq |-> "reset", ok |-> ok]) ELSE out

\* fmt.Fprint(os.Stderr, ansi.SetIndeterminateProgressBar); the reset write
\* of the next line is deferred, not made here.
WriteEnterAndReset(out, ok) ==
    Append(Append(out, [seq |-> "enter", ok |-> ok]), [seq |-> "reset", ok |-> ok])

WriteEnter(out, ok) == Append(out, [seq |-> "enter", ok |-> ok])

\* `_, _ =`: the outcome of the enter write is discarded.
AfterEnterWriteAbort(ok) == IF ok THEN "connect" ELSE "done"

AfterEnterWrite(ok) == "connect"

\* `if err != nil { return err }` after db.Connect.
ConnectNext(err) == IF err # NoErr THEN "done" ELSE "appNew"

\* `if err != nil { return err }` after app.New.
AppNewNextIgnoreErr(err) == "newProgram"

AppNewNext(err) == IF err # NoErr THEN "done" ELSE "newProgram"

\* Both branches after program.Run return.
AfterRunRetry(err) == IF err # NoErr THEN "newProgram" ELSE "done"

AfterRun(err) == "done"

\* tea.WithContext(ctx) is among the options of tea.NewProgram.
WithContextMissing == FALSE

WithContext == TRUE

\* slog.Error("TUI run error", "error", err): only RunTUI has the call.
LogRunError(f, err) ==
    IF f = "RunTUI" /\ err # NoErr
    THEN <<[msg |-> "TUI run error", error |-> err]>>
    ELSE << >>

NewBridge == [pc |-> "recv", msg |-> 0]

\* `go appInstance.Subscribe(program)`: one goroutine.
SpawnBridgeTwice(bs) == Append(Append(bs, NewBridge), NewBridge)

SpawnNoBridge(bs) == bs

SpawnBridge(bs) == Append(bs, NewBridge)

\* `go`: the caller's path goes on to program.Run without waiting for
\* Subscribe to return.
CallerWaitsForSubscribe(bs) == \A b \in DOMAIN bs : bs[b].pc = "done"

CallerResumes(bs) == TRUE

\* The program's own context is done: it derives from the supplied context
\* when that was wired in, and is cancelled when Run returns.
ProgramDoneOnCancelOnly == progCtx /\ ctxDone

ProgramDone == program = "exited" \/ (progCtx /\ ctxDone)

\* The entry point returns err: the deferred reset write runs (its result is
\* discarded, so it may fail), or execution goes on at `next`.
Leave(next, err) ==
    /\ pc' = next
    /\ IF next = "done"
       THEN /\ result' = err
            /\ \E ok \in BOOLEAN : stderr' = RunDefers(deferred, stderr, ok)
       ELSE UNCHANGED <<result, stderr>>

\* ---------------------------------------------------------------- Init

InitState ==
    /\ supportsProgress = FALSE
    /\ progressEnabled = FALSE
    /\ deferred = FALSE
    /\ stderr = << >>
    /\ program = "none"
    /\ progCtx = FALSE
    /\ calls = [connect |-> 0, appNew |-> 0, newProgram |-> 0, run |-> 0]
    /\ bridges = << >>
    /\ events = << >>
    /\ nEmitted = 0
    /\ delivered = << >>
    /\ ctxDone = FALSE
    /\ runErr = NoErr
    /\ result = "none"
    /\ logs = << >>
    /\ nShutdown = 0
    /\ emittedAtRun = 0

\* RunWithProgressBar(ctx, cfg, cwd) starts with nothing constructed.
InitRunWithProgressBar ==
    /\ fn = "RunWithProgressBar"
    /\ pc = "detect"
    /\ conn = "none"
    /\ app = "none"

\* RunTUI(ctx, appInstance) is handed an application instance the caller
\* built with Connect and NewApp.
InitRunTUI ==
    /\ fn = "RunTUI"
    /\ pc = "newProgram"
    /\ conn = "open"
    /\ app = "live"

Init ==
    /\ InitState
    /\ \/ /\ InitRunWithProgressBar
          /\ isTerminal \in BOOLEAN
          /\ wtSession \in {[ok |-> FALSE, value |-> ""], [ok |-> TRUE, value |-> "1"]}
          /\ termProgram \in {<< >>, <<"G", "h", "o", "s", "t", "t", "y">>}
          /\ progress \in ProgressFlags
       \/ /\ InitRunTUI
          /\ isTerminal = TRUE
          /\ wtSession = [ok |-> FALSE, value |-> ""]
          /\ termProgram = << >>
          /\ progress = "nil"

\* ------------------------------------------- RunWithProgressBar, RunTUI

\* lib.go 79-80
Detect ==
    /\ pc = "detect"
    /\ supportsProgress' = supportsProgressBar(isTerminal, wtSession, termProgram)
    /\ progressEnabled' = ProgressEnabled(progress)
    /\ pc' = "overlay"
    /\ UNCHANGED <<emittedAtRun, inputs, deferred, stderr, result, logs, resources, ui, backend,
                   bridges, delivered, ctxDone, nShutdown>>

\* lib.go 82-85: the result of the write is discarded, so it may fail.
Overlay ==
    /\ pc = "overlay"
    /\ IF OverlayActive(progressEnabled, supportsProgress)
       THEN /\ \E ok \in BOOLEAN :
                 /\ stderr' = WriteEnter(stderr, ok)
                 /\ pc' = AfterEnterWrite(ok)
            /\ deferred' = TRUE
       ELSE /\ pc' = "connect"
            /\ UNCHANGED <<stderr, deferred>>
    /\ UNCHANGED <<emittedAtRun, inputs, supportsProgress, progressEnabled, result, logs,
                   resources, ui, backend, bridges, delivered, ctxDone, nShutdown>>

\* lib.go 88-91
Connect ==
    /\ pc = "connect"
    /\ \E err \in {NoErr, ErrConnect} :
         /\ conn' = IF err = NoErr THEN "open" ELSE "failed"
         /\ Leave(ConnectNext(err), err)
    /\ calls' = [calls EXCEPT !.connect = @ + 1]
    /\ UNCHANGED <<emittedAtRun, inputs, supportsProgress, progressEnabled, deferred, logs, app,
                   ui, backend, bridges, delivered, ctxDone, nShutdown>>

\* lib.go 94-97
AppNew ==
    /\ pc = "appNew"
    /\ \E err \in {NoErr, ErrAppNew} :
         /\ app' = IF err = NoErr THEN "live" ELSE "failed"
         /\ Leave(AppNewNext(err), err)
    /\ calls' = [calls EXCEPT !.appNew = @ + 1]
    /\ UNCHANGED <<emittedAtRun, inputs, supportsProgress, progressEnabled, deferred, logs, conn,
                   ui, backend, bridges, delivered, ctxDone, nShutdown>>

\* lib.go 55-65 and 100-109
NewProgram ==
    /\ pc = "newProgram"
    /\ program' = "constructed"
    /\ progCtx' = WithContext
    /\ calls' = [calls EXCEPT !.newProgram = @ + 1]
    /\ pc' = "goSubscribe"
    /\ UNCHANGED <<emittedAtRun, inputs, supportsProgress, progressEnabled, deferred, stderr,
                   result, logs, conn, app, runErr, backend, bridges, delivered,
                   ctxDone, nShutdown>>

\* lib.go 66 and 110
GoSubscribe ==
    /\ pc = "goSubscribe"
    /\ bridges' = SpawnBridge(bridges)
    /\ pc' = "run"
    /\ UNCHANGED <<emittedAtRun, inputs, supportsProgress, progressEnabled, deferred, stderr,
                   result, logs, resources, ui, backend, delivered, ctxDone,
                   nShutdown>>

\* lib.go 68 and 112: the call of program.Run, which blocks.
RunCall ==
    /\ pc = "run"
    /\ CallerResumes(bridges)
    /\ program' = "running"
    /\ calls' = [calls EXCEPT !.run = @ + 1]
    /\ pc' = "running"
    /\ emittedAtRun' = nEmitted
    /\ UNCHANGED <<inputs, supportsProgress, progressEnabled, deferred, stderr,
                   result, logs, conn, app, progCtx, runErr, backend, bridges,
                   delivered, ctxDone, nShutdown>>

\* lib.go 68-72 and 112-115: program.Run has returned.
RunReturn ==
    /\ pc = "running"
    /\ program = "exited"
    /\ logs' = logs \o LogRunError(fn, runErr)
    /\ Leave(AfterRun(runErr), runErr)
    /\ UNCHANGED <<emittedAtRun, inputs, supportsProgress, progressEnabled, deferred, resources,
                   ui, backend, bridges, delivered, ctxDone, nShutdown>>

\* ------------------------------------------------ the UI program's loop

\* program.Run returns nil on a user-driven exit.
UserQuit ==
    /\ program = "running"
    /\ program' = "exited"
    /\ runErr' = NoErr
    /\ UNCHANGED <<emittedAtRun, inputs, caller, resources, progCtx, backend, bridges,
                   delivered, ctxDone, nShutdown>>

\* program.Run returns an error on an internal UI or terminal I/O fault.
UIError ==
    /\ program = "running"
    /\ program' = "exited"
    /\ runErr' = ErrUI
    /\ UNCHANGED <<emittedAtRun, inputs, caller, resources, progCtx, backend, bridges,
                   delivered, ctxDone, nShutdown>>

\* program.Run returns because the context it was built with is cancelled.
CancelReturn ==
    /\ program = "running"
    /\ progCtx
    /\ ctxDone
    /\ program' = "exited"
    /\ runErr' = ErrKilled
    /\ UNCHANGED <<emittedAtRun, inputs, caller, resources, progCtx, backend, bridges,
                   delivered, ctxDone, nShutdown>>

\* The top-level caller cancels the context it passed in.
Cancel ==
    /\ ~ctxDone
    /\ pc # "done"
    /\ ctxDone' = TRUE
    /\ UNCHANGED <<emittedAtRun, inputs, caller, resources, ui, backend, bridges, delivered,
                   nShutdown>>

\* ------------------------------------------------- backend and bridge

\* The backend can emit: its event sequence is unbounded, so nothing but
\* the instance's own lifetime limits it.
CanEmitRendezvous ==
    /\ app = "live"
    /\ nEmitted < MaxEvents
    /\ \E b \in DOMAIN bridges : bridges[b].pc = "recv"

CanEmit ==
    /\ app = "live"
    /\ nEmitted < MaxEvents

BackendEmit ==
    /\ CanEmit
    /\ nEmitted' = nEmitted + 1
    /\ events' = Append(events, nEmitted + 1)
    /\ UNCHANGED <<emittedAtRun, inputs, caller, resources, ui, bridges, delivered, ctxDone,
                   nShutdown>>

\* Subscribe takes the next event of the instance's sequence.
BridgeRecv(b) ==
    /\ bridges[b].pc = "recv"
    /\ app = "live"
    /\ events # << >>
    /\ bridges' = [bridges EXCEPT ![b] = [pc |-> "send", msg |-> Head(events)]]
    /\ events' = Tail(events)
    /\ UNCHANGED <<emittedAtRun, inputs, caller, resources, ui, nEmitted, delivered, ctxDone,
                   nShutdown>>

\* Subscribe forwards the event: the send completes when the render loop
\* takes it from the input channel.
BridgeSend(b) ==
    /\ bridges[b].pc = "send"
    /\ program = "running"
    /\ delivered' = Append(delivered, bridges[b].msg)
    /\ bridges' = [bridges EXCEPT ![b] = NewBridge]
    /\ UNCHANGED <<emittedAtRun, inputs, caller, resources, ui, backend, ctxDone, nShutdown>>

\* The send is given up once the program's context is done.
BridgeSendDropped(b) ==
    /\ bridges[b].pc = "send"
    /\ ProgramDone
    /\ bridges' = [bridges EXCEPT ![b] = NewBridge]
    /\ UNCHANGED <<emittedAtRun, inputs, caller, resources, ui, backend, delivered, ctxDone,
                   nShutdown>>

\* Subscribe returns when the event source is exhausted by Shutdown.
BridgeExit(b) ==
    /\ bridges[b].pc = "recv"
    /\ app = "shutdown"
    /\ bridges' = [bridges EXCEPT ![b] = [pc |-> "done", msg |-> 0]]
    /\ UNCHANGED <<emittedAtRun, inputs, caller, resources, ui, backend, delivered, ctxDone,
                   nShutdown>>

BridgeTake == \E b \in DOMAIN bridges : BridgeRecv(b)

BridgeForward == \E b \in DOMAIN bridges : BridgeSend(b)

BridgeGiveUp == \E b \in DOMAIN bridges : BridgeSendDropped(b)

BridgeReturn == \E b \in DOMAIN bridges : BridgeExit(b)

\* appInstance.Shutdown(): releases the backend's resources; a call on an
\* instance that is already shut down changes nothing.
AppShutdownOnce(a) == IF a = "shutdown" THEN "panicked" ELSE "shutdown"

AppShutdown(a) == "shutdown"

\* lib.go 144-146: the embedding caller of RunTUI holds the instance.
Shutdown ==
    /\ fn = "RunTUI"
    /\ app \in {"live", "shutdown"}
    /\ nShutdown < MaxShutdown
    /\ app' = AppShutdown(app)
    /\ nShutdown' = nShutdown + 1
    /\ UNCHANGED <<emittedAtRun, inputs, caller, conn, calls, ui, backend, bridges, delivered,
                   ctxDone>>

\* ------------------------------------------------------- specifications

Next ==
    \/ Detect
    \/ Overlay
    \/ Connect
    \/ AppNew
    \/ NewProgram
    \/ GoSubscribe
    \/ RunCall
    \/ RunReturn
    \/ UserQuit
    \/ UIError
    \/ CancelReturn
    \/ Cancel
    \/ BackendEmit
    \/ BridgeTake
    \/ BridgeForward
    \/ BridgeGiveUp
    \/ BridgeReturn
    \/ Shutdown

Spec == Init /\ [][Next]_vars

\* The Go scheduler runs every runnable goroutine: the caller's path, the
\* render loop's reaction to a cancelled context and the bridge's send.
FairSpec ==
    /\ Spec
    /\ WF_vars(RunReturn)
    /\ WF_vars(CancelReturn)
    /\ WF_vars(BridgeGiveUp)

\* The scheduler also runs the caller's path up to program.Run and the
\* bridge's receive and forward steps; the render loop, while it runs, takes
\* what is sent to its input channel.
DrainSpec ==
    /\ Spec
    /\ WF_vars(NewProgram)
    /\ WF_vars(GoSubscribe)
    /\ WF_vars(RunCall)
    /\ WF_vars(BridgeTake)
    /\ WF_vars(BridgeForward)

\* The scheduler also lets a bridge return whose event source is exhausted.
ExitSpec ==
    /\ FairSpec
    /\ WF_vars(BridgeReturn)

\* The capability detector alone, over every environment of the tables.
InitDetect ==
    /\ InitState
    /\ InitRunWithProgressBar
    /\ isTerminal \in BOOLEAN
    /\ wtSession \in WtSessions
    /\ termProgram \in TermPrograms
    /\ progress \in ProgressFlags

SpecDetect == InitDetect /\ [][Detect]_vars

\* --------------------------------------------------------------- claims

Count(out, name) == Cardinality({i \in DOMAIN out : out[i].seq = name})

InFlight == Cardinality({b \in DOMAIN bridges : bridges[b].pc = "send"})

NoUI ==
    /\ program = "none"
    /\ bridges = << >>
    /\ calls.newProgram = 0
    /\ calls.run = 0

\* C1: in RunWithProgressBar the reset sequence is never written unless the
\* enter sequence was, it is written at most once, and on every return path
\* an invocation that wrote the enter sequence has written the reset
\* sequence exactly once when it has returned.
C1_OverlayPaired ==
    /\ Count(stderr, "enter") = 0 => Count(stderr, "reset") = 0
    /\ Count(stderr, "reset") <= 1
    /\ (pc = "done" /\ Count(stderr, "enter") >= 1) => Count(stderr, "reset") = 1

C1_Witness ==
    /\ fn = "RunWithProgressBar"
    /\ pc = "done"
    /\ result = ErrConnect
    /\ Count(stderr, "enter") = 1
    /\ Count(stderr, "reset") = 1

\* C2: the program's input channel receives the emitted events in emission
\* order without duplicates; and as long as the program's context is not
\* done nothing is dropped: what was received is E1..Ek without a gap and
\* every other emitted event is still queued or in the bridge's send, also
\* when the render loop started only after the events were emitted.
C2_EventsInOrder ==
    /\ \A i, j \in DOMAIN delivered : i < j => delivered[i] < delivered[j]
    /\ ~ProgramDone =>
         /\ delivered = [i \in 1..Len(delivered) |-> i]
         /\ Len(delivered) + InFlight + Len(events) = nEmitted

C2_Witness ==
    /\ ~ProgramDone
    /\ emittedAtRun = MaxEvents
    /\ delivered = [i \in 1..MaxEvents |-> i]

C4_CancelStops ==
    /\ (ctxDone /\ pc = "running") ~> (pc = "done")
    /\ [][program = "exited" => delivered' = delivered]_vars
    /\ (program = "exited" /\ InFlight > 0) ~> (InFlight = 0)

C4_Witness ==
    /\ pc = "done"
    /\ runErr = ErrKilled
    /\ InFlight = 1
    /\ Len(delivered) >= 1

\* C5: RunWithProgressBar has written an overlay sequence, once past its
\* overlay step, exactly when the progress flag is nil or true and the
\* capability detector returned true; with the flag false nothing is ever
\* written.
C5_OverlayDecision ==
    /\ (fn = "RunWithProgressBar" /\ pc \notin {"detect", "overlay"}) =>
         (Count(stderr, "enter") = 1
            <=> (progress \in {"nil", "true"} /\ supportsProgress))
    /\ pc \in {"detect", "overlay"} => stderr = << >>
    /\ progress = "false" => stderr = << >>

C5_Witness ==
    /\ pc = "done"
    /\ progress = "false"
    /\ supportsProgress
    /\ stderr = << >>

\* C6: the capability detector returns true exactly when stderr is a
\* terminal and WT_SESSION is present (whatever its value) or TERM_PROGRAM
\* is one of the values that contain "ghostty" in some letter case.
C6_DetectorTable ==
    pc # "detect" =>
        (supportsProgress
            <=> (isTerminal /\ (wtSession.ok \/ termProgram \in GhosttyPrograms)))

C6_Witness ==
    /\ pc # "detect"
    /\ supportsProgress
    /\ ~wtSession.ok
    /\ termProgram = <<"x", "-", "g", "H", "o", "S", "t", "T", "y", "2">>

\* C7: when db.Connect or app.New fails, RunWithProgressBar has returned
\* that error, and no program was constructed, no bridge started and Run
\* never called; after a failed Connect app.New was never called.
C7_ConstructionErrorsAbort ==
    /\ conn = "failed" =>
         (pc = "done" /\ result = ErrConnect /\ calls.appNew = 0 /\ NoUI)
    /\ app = "failed" =>
         (pc = "done" /\ result = ErrAppNew /\ NoUI)

C7_Witness ==
    /\ app = "failed"
    /\ pc = "done"
    /\ result = ErrAppNew

\* C8: when app.New fails after db.Connect opened a connection, the
\* connection has been released when RunWithProgressBar has returned.
C8_PartialResourcesReleased ==
    (pc = "done" /\ app = "failed") => conn # "open"

\* C9: when program.Run returned a non-nil error the entry point has
\* emitted one log record for it and returned that error; when it returned
\* nil the entry point returned nil and logged nothing.
C9_RunErrorLoggedAndReturned ==
    (pc = "done" /\ program = "exited") =>
        /\ result = runErr
        /\ runErr # NoErr => (Len(logs) = 1 /\ logs[1].error = runErr)
        /\ runErr = NoErr => logs = << >>

\* C10: in one invocation db.Connect, app.New, tea.NewProgram and
\* program.Run are each called at most once and at most one bridge is
\* started, also after program.Run returned an error; RunTUI calls neither
\* db.Connect nor app.New.
C10_AtMostOnce ==
    /\ calls.connect <= 1
    /\ calls.appNew <= 1
    /\ calls.newProgram <= 1
    /\ calls.run <= 1
    /\ Len(bridges) <= 1
    /\ fn = "RunTUI" => (calls.connect = 0 /\ calls.appNew = 0)

C10_Witness ==
    /\ pc = "done"
    /\ result = ErrUI
    /\ calls.newProgram = 1
    /\ calls.run = 1
    /\ Len(bridges) = 1

\* C11: a failed enter or reset write changes nothing afterwards: the entry
\* point returns only after a failed db.Connect, a failed app.New or the
\* return of program.Run, with exactly that step's error, whatever the
\* outcome of the writes; and an invocation that issued the enter write
\* has issued the reset write when it has returned, also when the enter
\* write failed.
C11_WriteFailuresIgnored ==
    /\ pc = "done" =>
         \/ conn = "failed" /\ result = ErrConnect
         \/ app = "failed" /\ result = ErrAppNew
         \/ program = "exited" /\ calls.run = 1 /\ Len(bridges) = 1 /\ result = runErr
    /\ (pc = "done" /\ stderr # << >>) =>
         (stderr[1].seq = "enter" /\ Count(stderr, "reset") = 1)

C11_Witness ==
    /\ pc = "done"
    /\ program = "exited"
    /\ result = NoErr
    /\ stderr = <<[seq |-> "enter", ok |-> FALSE], [seq |-> "reset", ok |-> FALSE]>>

\* C12: with the overlay active the enter sequence is the first thing
\* written and is written before db.Connect, app.New, tea.NewProgram, the
\* bridge and program.Run; the reset sequence is written only on return,
\* when no step of the run is going on; and a result reaches the caller of
\* an invocation that wrote the enter sequence only with the reset written.
C12_OverlayBrackets ==
    /\ pc \in {"detect", "overlay"} =>
         (conn = "none" /\ app = "none" /\ calls.connect = 0 /\ NoUI)
    /\ (fn = "RunWithProgressBar" /\ calls.connect >= 1
          /\ ProgressEnabled(progress) /\ supportsProgress) =>
         (stderr # << >> /\ stderr[1].seq = "enter")
    /\ Count(stderr, "reset") >= 1 =>
         /\ pc = "done"
         /\ program \in {"none", "exited"}
         /\ Len(stderr) = 2
         /\ stderr[2].seq = "reset"
    /\ (result # "none" /\ Count(stderr, "enter") = 1) =>
         Count(stderr, "reset") = 1

C12_Witness ==
    /\ pc = "done"
    /\ result = ErrUI
    /\ Len(stderr) = 2
    /\ stderr[1].seq = "enter"
    /\ stderr[2].seq = "reset"

CallerStep ==
    \/ Detect
    \/ Overlay
    \/ Connect
    \/ AppNew
    \/ NewProgram
    \/ GoSubscribe
    \/ RunCall

\* C14: a bridge exists only once the program has been constructed, and
\* exists when program.Run is called; a bridge is in a send only to a
\* constructed program; and the caller's path can always take its next step
\* until it is inside program.Run, whatever the bridge is doing: a bridge
\* blocked in a send does not keep program.Run from being called.
C14_BridgeStartOrder ==
    /\ bridges # << >> => (program # "none" /\ calls.newProgram = 1)
    /\ pc = "goSubscribe" => (bridges = << >> /\ program = "constructed")
    /\ calls.run >= 1 => Len(bridges) >= 1
    /\ InFlight > 0 => program # "none"
    /\ pc \notin {"running", "done"} => ENABLED CallerStep

C14_Witness ==
    /\ pc = "run"
    /\ program = "constructed"
    /\ InFlight = 1
    /\ Len(events) >= 1

Received(k) == \E i \in DOMAIN delivered : delivered[i] = k

\* C15: under fair scheduling every event the backend has emitted is
\* eventually received by the program's input channel, unless the render
\* loop stops draining (the program exits or its context is cancelled) or
\* the instance stops being live.
C15_EventuallyDelivered ==
    \A k \in 1..MaxEvents :
        (nEmitted >= k) ~> (Received(k) \/ ProgramDone \/ app # "live")

C15_Witness ==
    /\ program = "running"
    /\ ~ProgramDone
    /\ app = "live"
    /\ emittedAtRun = 0
    /\ \A k \in 1..MaxEvents : Received(k)

AllBridgesReturned == \A b \in DOMAIN bridges : bridges[b].pc = "done"

ExitedUncancelled == program = "exited" /\ runErr # ErrKilled

C17_ReleasedAfterRun ==
    (fn = "RunWithProgressBar" /\ pc = "done" /\ program = "exited") =>
        (conn # "open" /\ app = "shutdown")

====
